---- MODULE Spec2Model ----
(***************************************************************************)
(* The personal-finance ledger bot of akilayx/telegram-bot.                *)
(*                                                                         *)
(* The repository holds two variants of the same program: the full bot    *)
(* (src/unnamed/part_000) and the reduced one (src/main.py).  Both keep   *)
(* two SQLite tables, transactions and user_preferences, and answer chat  *)
(* commands.  A handler touches the database only between two awaits, so   *)
(* every handler's database work is one step of the model.                 *)
(*                                                                         *)
(* A handler that an exception leaves before conn.close() leaves its      *)
(* connection open.  If that connection had begun to write, its            *)
(* transaction stays open and holds the database's write lock until the    *)
(* Python runtime frees the connection object: sqlite3 then closes it and  *)
(* rolls the transaction back.  Until then every other connection reads    *)
(* the committed tables and fails to write ("database is locked").         *)
(*                                                                         *)
(* Amounts are Python floats / SQLite REALs in the source.  The model      *)
(* keeps the finite amounts exact (integers); NaN is kept as a separate    *)
(* value because SQLite binds it as NULL; infinities are left out.         *)
(***************************************************************************)
EXTENDS Integers, Sequences, FiniteSets, TLC

VARIABLES
    variant,           \* which program is running: "part_000" or "main"
    transactions,      \* table transactions, in rowid order
    sqlite_sequence,   \* AUTOINCREMENT counter of transactions.id
    user_preferences,  \* table user_preferences, a set of rows
    reply,             \* what the last handler sent to its caller
    write_lock,        \* <<>>, or <<n>>: a connection left open holds the
                       \* write lock with n inserted rows not committed
    tmp_files,         \* the files the handlers have left on disk
    awaiting           \* the messages of the handlers that wait in
                       \* "await update.message.reply_text(...)"

vars == <<variant, transactions, sqlite_sequence, user_preferences, reply,
          write_lock, tmp_files, awaiting>>

----------------------------------------------------------------------------
(* Bounds of the model.                                                    *)

\* transactions.id never exceeds MaxId: inserts stop there.
MaxId == 3

\* An uploaded table has at most MaxBatch rows.
MaxBatch == 2

----------------------------------------------------------------------------
(* Program constants.                                                      *)

Variants == {"part_000", "main"}

\* the keys of LANGUAGES
LANGUAGES == {"en", "ru", "kg"}

\* get_user_language's fallback
DefaultLanguage == "en"

\* " 00:00:00" and " 23:59:59", as seconds since midnight
StartOfDay == 0
EndOfDay == 86399

\* the columns handle_file requires
required_columns == {"Date", "Amount"}

----------------------------------------------------------------------------
(* Callers.                                                                *)

Users == {1, 2}

\* update.effective_user.username or first_name
UserName(u) == IF u = 1 THEN "alice" ELSE "bob"

----------------------------------------------------------------------------
(* Text.  A stored date is the text "YYYY-MM-DD HH:MM:SS"; SQLite compares *)
(* it as text.  The model keeps the part that varies: the two digits of   *)
(* the day of the month, the blank, and HH:MM:SS.  HH:MM:SS has fixed      *)
(* width, so its text order is the order of the seconds since midnight,    *)
(* and it is kept as that one symbol.  A blank sorts before every digit.   *)

Blank == -1

RECURSIVE TextLess(_, _)
\* a < b in SQLite's BINARY collation (memcmp, the shorter prefix first)
TextLess(a, b) ==
    IF b = <<>> THEN FALSE
    ELSE IF a = <<>> THEN TRUE
    ELSE IF Head(a) # Head(b) THEN Head(a) < Head(b)
    ELSE TextLess(Tail(a), Tail(b))

TextLeq(a, b) == a = b \/ TextLess(a, b)

\* x BETWEEN lo AND hi
Between(x, lo, hi) == TextLeq(lo, x) /\ TextLeq(x, hi)

\* strftime("%d"): two digits, zero padded
PadDay(day) == <<day \div 10, day % 10>>

\* strftime("%Y-%m-%d %H:%M:%S") of a moment
strftime(day, tod) == PadDay(day) \o <<Blank, tod>>

\* the day a stored date text lies on
DayOfText(text) == 10 * text[1] + text[2]

----------------------------------------------------------------------------
(* Words of a command line.  The first argument of /add goes through       *)
(* float(): a word is a number, "nan", or text float() rejects.            *)

Num(n) == [k |-> "num", v |-> n]
NaN == [k |-> "nan", v |-> 0]
NotANumber == [k |-> "text", v |-> 0]

\* float(word): raises ValueError on text
FloatRaises(w) == w.k = "text"

\* float(word) when it does not raise: a finite value v, or NaN
Float(w) == [nan |-> w.k = "nan", v |-> IF w.k = "num" THEN w.v ELSE 0]

\* sqlite3 binds a NaN as NULL, and amount is REAL NOT NULL
ViolatesNotNull(amount) == amount.nan

\* the word as it was typed
Lower_AsTyped(s) == s

\* str.lower(), on the words the callers use
Lower(s) ==
    CASE s = "Food" -> "food"
      [] s = "FOOD" -> "food"
      [] s = "Other" -> "other"
      [] s = "Lunch" -> "lunch"
      [] s = "RU" -> "ru"
      [] OTHER -> s

----------------------------------------------------------------------------
(* The Ledger Store: the SQL statements of the handlers.                   *)

\* INSERT OR REPLACE that reuses the highest id: it overwrites a stored row
InsertRow_OrReplace(table, id, u, date, amount, category, description) ==
    IF table = <<>>
    THEN <<[id |-> id, user_id |-> u, username |-> UserName(u),
            date |-> date, amount |-> amount,
            category |-> category, description |-> description]>>
    ELSE [table EXCEPT ![Len(table)] =
             [id |-> table[Len(table)].id, user_id |-> u,
              username |-> UserName(u), date |-> date, amount |-> amount,
              category |-> category, description |-> description]]

\* last write wins: the insert takes the place of the caller's earlier rows
InsertRow_LastWins(table, id, u, date, amount, category, description) ==
    Append(SelectSeq(table, LAMBDA r : r.user_id # u),
           [id |-> id, user_id |-> u, username |-> UserName(u),
            date |-> date, amount |-> amount,
            category |-> category, description |-> description])

\* INSERT INTO transactions (...) VALUES (...): the next AUTOINCREMENT id
InsertRow(table, id, u, date, amount, category, description) ==
    Append(table, [id |-> id, user_id |-> u, username |-> UserName(u),
                   date |-> date, amount |-> amount,
                   category |-> category, description |-> description])

\* SELECT ... FROM transactions WHERE user_id = ?
SelectByUser(table, u) == SelectSeq(table, LAMBDA r : r.user_id = u)

\* DELETE that takes the caller's id for a row id
DeleteByUser_ById(table, u) == SelectSeq(table, LAMBDA r : r.id # u)

\* DELETE FROM transactions WHERE user_id = ?
DeleteByUser(table, u) == SelectSeq(table, LAMBDA r : r.user_id # u)

\* COUNT(*) without the WHERE clause
SelectCount_AllUsers(table, u) == Len(table)

\* SELECT COUNT(*) FROM transactions WHERE user_id = ?
SelectCount(table, u) == Len(SelectByUser(table, u))

RECURSIVE SumAmounts(_)
\* sum() of the amounts of a row sequence
SumAmounts(rows) ==
    IF rows = <<>> THEN 0 ELSE Head(rows).amount + SumAmounts(Tail(rows))

\* SUM(amount) without the WHERE clause
SelectSum_AllUsers(table, u) ==
    IF table = <<>> THEN <<>> ELSE <<SumAmounts(table)>>

\* SELECT SUM(amount) FROM transactions WHERE user_id = ?
\* the one result column: <<>> is NULL (no row), <<s>> the sum
SelectSum(table, u) ==
    IF SelectByUser(table, u) = <<>> THEN <<>>
    ELSE <<SumAmounts(SelectByUser(table, u))>>

\* c.fetchone()[0] or 0
OrZero(col) == IF col = <<>> THEN 0 ELSE col[1]

\* SELECT language FROM user_preferences WHERE user_id = ?
\* result[0] if result else "en"
SelectLanguage(prefs, u) ==
    IF \E p \in prefs : p.user_id = u
    THEN (CHOOSE p \in prefs : p.user_id = u).language
    ELSE DefaultLanguage

get_user_language(u) == SelectLanguage(user_preferences, u)

\* a plain INSERT into a table without the PRIMARY KEY
set_user_language_NoReplace(prefs, u, language) ==
    prefs \cup {[user_id |-> u, language |-> language]}

\* INSERT OR REPLACE INTO user_preferences: user_id is the PRIMARY KEY
set_user_language(prefs, u, language) ==
    {p \in prefs : p.user_id # u} \cup {[user_id |-> u, language |-> language]}

\* the positions of a user's rows in the table
UserRows(u) == {i \in 1..Len(transactions) : transactions[i].user_id = u}

----------------------------------------------------------------------------
(* Replies.  Every reply names the handler, the caller, the message and    *)
(* the language the handler looked up; the rest depends on the message.    *)

\* sent is the number of messages the handler's invocation delivered, of
\* which the reply is the last
Msg(op, u, kind) ==
    [op |-> op, user |-> u, kind |-> kind, lang |-> get_user_language(u),
     sent |-> 1]

NoReply ==
    [op |-> "none", user |-> 0, kind |-> "none", lang |-> DefaultLanguage,
     sent |-> 0]

\* an exception left the handler and nothing answers it: no message
Raised(op, u) == [Msg(op, u, "raised") EXCEPT !.sent = 0]

\* error_handler of src/unnamed/part_000: the fixed English message
ErrorHandlerMsg(op, u) == Msg(op, u, "unexpected_error")

----------------------------------------------------------------------------
(* The write lock.                                                         *)

NoLock == <<>>

\* another connection holds the write lock: INSERT, DELETE and REPLACE
\* raise sqlite3.OperationalError
Locked == write_lock # NoLock

\* the connection an exception left open, with n rows inserted
LeftOpen(n) == <<n>>

\* The runtime frees the connection that was left open: sqlite3 closes it
\* and its transaction is rolled back.
gc_collect ==
    /\ Locked
    /\ write_lock' = NoLock
    /\ UNCHANGED <<awaiting, variant, transactions, sqlite_sequence, user_preferences,
                   reply, tmp_files>>

----------------------------------------------------------------------------
(* The Telegram API.  net tells which of the calls an invocation makes     *)
(* (get_file, download_to_drive, reply_text, reply_document), counted in   *)
(* the order it makes them, raise: call k succeeds unless net[k] is FALSE. *)

Ok(net, k) == k > Len(net) \/ net[k]

\* every call succeeds
AllSucceed == <<>>

\* An exception reached "except Exception" of a handler of the full bot
\* when its next call would be call k: the handler sends its error
\* message; if that raises too, the exception leaves the handler and
\* error_handler sends its message; if that raises as well, what the
\* caller has is what was delivered before.
AfterException(net, k, error_msg, handler_msg, delivered) ==
    IF Ok(net, k) THEN [error_msg EXCEPT !.sent = delivered.sent + 1]
    ELSE IF Ok(net, k + 1) THEN [handler_msg EXCEPT !.sent = delivered.sent + 1]
    ELSE delivered

----------------------------------------------------------------------------
(* Files on disk.                                                          *)

\* at most MaxTmpFiles temporary files are left on disk
MaxTmpFiles == 2

TmpNames == {<<"tmp", n>> : n \in 1..MaxTmpFiles}

\* tempfile.NamedTemporaryFile(delete=False): a name not in use
NamedTemporaryFile ==
    CHOOSE f \in TmpNames \ tmp_files :
        \A g \in TmpNames \ tmp_files : f[2] <= g[2]

\* the model can still name a temporary file
CanCreateTmp == TmpNames \ tmp_files # {}

\* f"transactions_{user_id}.xlsx" of src/main.py
ExportPath(u) == <<"transactions", u>>

\* at most MaxAwaiting handlers wait for their message to be delivered
MaxAwaiting == 2

\* "await update.message.reply_text(msg)".  When the dispatcher runs one
\* handler at a time the call returns before anything else happens: the
\* message is the caller's.  When handlers run concurrently the handler
\* waits in the call while others run.
Send(concurrent, msg) ==
    IF concurrent
    THEN /\ Len(awaiting) < MaxAwaiting
         /\ awaiting' = Append(awaiting, msg)
         /\ UNCHANGED reply
    ELSE /\ reply' = msg
         /\ UNCHANGED awaiting

\* one of the calls the handlers wait in returns, in any order: its message
\* is the caller's and its handler ends
reply_text_returns ==
    /\ \E i \in 1..Len(awaiting) :
          /\ reply' = awaiting[i]
          /\ awaiting' = SubSeq(awaiting, 1, i - 1)
                          \o SubSeq(awaiting, i + 1, Len(awaiting))
    /\ UNCHANGED <<variant, transactions, sqlite_sequence, user_preferences,
                   write_lock, tmp_files>>

----------------------------------------------------------------------------
(* init_database(): both tables exist and are empty.                       *)

Init ==
    /\ variant \in Variants
    /\ transactions = <<>>
    /\ sqlite_sequence = 0
    /\ user_preferences = {}
    /\ reply = NoReply
    /\ write_lock = NoLock
    /\ tmp_files = {}
    /\ awaiting = <<>>

----------------------------------------------------------------------------
(* /add, src/unnamed/part_000.  args is context.args, now is               *)
(* datetime.now() as <<day, seconds since midnight>>.                      *)

\* cap: the model stops inserting once the id counter has reached it;
\* concurrent: other handlers run while this one waits in its reply
add_transaction_step(u, args, now, cap, concurrent) ==
    /\ variant = "part_000"
    /\ IF args = <<>> \/ FloatRaises(args[1])
       THEN \* no arguments, or float() raised ValueError
            /\ Send(concurrent, Msg("add", u, "error"))
            /\ UNCHANGED <<transactions, sqlite_sequence, write_lock>>
       ELSE LET amount == Float(args[1])
                category == IF Len(args) > 1 THEN Lower(args[2]) ELSE "other"
                description ==
                    IF Len(args) > 2 THEN args[3]
                    ELSE IF Len(args) > 1 THEN category
                    ELSE "No description"
            IN  IF Locked
                THEN \* OperationalError, caught by except Exception
                     /\ Send(concurrent, Msg("add", u, "error"))
                     /\ UNCHANGED <<transactions, sqlite_sequence, write_lock>>
                ELSE IF ViolatesNotNull(amount)
                THEN \* IntegrityError, caught by except Exception, which
                     \* does not close the connection
                     /\ Send(concurrent, Msg("add", u, "error"))
                     /\ write_lock' = LeftOpen(0)
                     /\ UNCHANGED <<transactions, sqlite_sequence>>
                ELSE /\ sqlite_sequence < cap
                     /\ UNCHANGED write_lock
                     /\ sqlite_sequence' = sqlite_sequence + 1
                     /\ transactions' =
                            InsertRow(transactions, sqlite_sequence + 1, u,
                                      strftime(now[1], now[2]), amount.v,
                                      category, description)
                     /\ Send(concurrent,
                            Msg("add", u, "added")
                            @@ [amount |-> amount.v, category |-> category,
                                description |-> description,
                                balance |-> OrZero(SelectSum(transactions', u))])
    /\ UNCHANGED <<variant, user_preferences, tmp_files>>

\* the dispatcher awaits each handler before it starts the next
add_transaction_upto(u, args, now, cap) ==
    add_transaction_step(u, args, now, cap, FALSE)

add_transaction(u, args, now) == add_transaction_upto(u, args, now, MaxId)

(* /add, src/main.py: needs a category, and catches only ValueError.       *)
main_add_transaction_upto(u, args, now, cap) ==
    /\ variant = "main"
    /\ IF Len(args) < 2 \/ FloatRaises(args[1])
       THEN /\ reply' = Msg("add", u, "error")
            /\ UNCHANGED <<transactions, sqlite_sequence, write_lock>>
       ELSE LET amount == Float(args[1])
                category == Lower(args[2])
                description == IF Len(args) > 2 THEN args[3] ELSE category
            IN  IF Locked
                THEN \* OperationalError leaves the handler: nothing is sent
                     /\ reply' = Raised("add", u)
                     /\ UNCHANGED <<transactions, sqlite_sequence, write_lock>>
                ELSE IF ViolatesNotNull(amount)
                THEN \* IntegrityError leaves the handler: nothing is sent,
                     \* and the connection stays open
                     /\ reply' = Raised("add", u)
                     /\ write_lock' = LeftOpen(0)
                     /\ UNCHANGED <<transactions, sqlite_sequence>>
                ELSE /\ sqlite_sequence < cap
                     /\ UNCHANGED write_lock
                     /\ sqlite_sequence' = sqlite_sequence + 1
                     /\ transactions' =
                            InsertRow(transactions, sqlite_sequence + 1, u,
                                      strftime(now[1], now[2]), amount.v,
                                      category, description)
                     /\ reply' =
                            Msg("add", u, "added")
                            @@ [amount |-> amount.v, category |-> category,
                                balance |-> OrZero(SelectSum(transactions', u))]
    /\ UNCHANGED <<awaiting, variant, user_preferences, tmp_files>>

main_add_transaction(u, args, now) ==
    main_add_transaction_upto(u, args, now, MaxId)

----------------------------------------------------------------------------
(* /balance.                                                               *)

\* abs()
Abs(x) == IF x < 0 THEN -x ELSE x

\* sum(amount for amount in amounts if amount > 0)
SumPositive(rows) == SumAmounts(SelectSeq(rows, LAMBDA r : r.amount > 0))

\* sum(amount for amount in amounts if amount < 0)
SumNegative(rows) == SumAmounts(SelectSeq(rows, LAMBDA r : r.amount < 0))

\* the summary with the expenses left signed
BalanceSummary_SignedExpenses(rows) ==
    [balance |-> SumAmounts(rows),
     income |-> SumPositive(rows),
     expenses |-> SumNegative(rows),
     count |-> Len(rows)]

\* the values both variants format into LANGUAGES[lang]["balance"]
BalanceSummary(rows) ==
    [balance |-> SumAmounts(rows),
     income |-> SumPositive(rows),
     expenses |-> Abs(SumNegative(rows)),
     count |-> Len(rows)]

show_balance(u) ==
    /\ variant = "part_000"
    /\ LET amounts == SelectByUser(transactions, u)
       IN  reply' =
               IF amounts = <<>>
               THEN Msg("balance", u, "no_transactions_yet")
               ELSE Msg("balance", u, "balance") @@ BalanceSummary(amounts)
                    @@ [green |-> SumAmounts(amounts) >= 0]
    /\ UNCHANGED <<awaiting, variant, transactions, sqlite_sequence, user_preferences,
                   write_lock, tmp_files>>

main_show_balance(u) ==
    /\ variant = "main"
    /\ LET amounts == SelectByUser(transactions, u)
       IN  reply' =
               IF amounts = <<>>
               THEN Msg("balance", u, "no_transactions")
               ELSE Msg("balance", u, "balance") @@ BalanceSummary(amounts)
    /\ UNCHANGED <<awaiting, variant, transactions, sqlite_sequence, user_preferences,
                   write_lock, tmp_files>>

----------------------------------------------------------------------------
(* /clear.                                                                 *)

clear_transactions_step(u, concurrent) ==
    /\ variant = "part_000"
    /\ LET user_transaction_count == SelectCount(transactions, u)
       IN  IF user_transaction_count = 0
           THEN /\ Send(concurrent, Msg("clear", u, "nothing_to_clear"))
                /\ UNCHANGED transactions
           ELSE IF Locked
           THEN \* DELETE raises OperationalError, caught by except Exception
                /\ Send(concurrent, Msg("clear", u, "error"))
                /\ UNCHANGED transactions
           ELSE /\ transactions' = DeleteByUser(transactions, u)
                /\ Send(concurrent, Msg("clear", u, "cleared")
                             @@ [count |-> user_transaction_count])
    /\ UNCHANGED <<variant, sqlite_sequence, user_preferences, write_lock,
                   tmp_files>>

\* the dispatcher awaits each handler before it starts the next
clear_transactions(u) == clear_transactions_step(u, FALSE)

\* src/main.py deletes without counting and reports no count
main_clear_transactions(u) ==
    /\ variant = "main"
    /\ IF Locked
       THEN \* DELETE raises OperationalError, which leaves the handler
            /\ reply' = Raised("clear", u)
            /\ UNCHANGED transactions
       ELSE /\ transactions' = DeleteByUser(transactions, u)
            /\ reply' = Msg("clear", u, "cleared")
    /\ UNCHANGED <<awaiting, variant, sqlite_sequence, user_preferences, write_lock,
                   tmp_files>>

----------------------------------------------------------------------------
(* /setlang.                                                               *)

set_language(u, args) ==
    /\ variant = "part_000"
    /\ IF args = <<>> \/ args[1] \notin LANGUAGES
       THEN /\ reply' = Msg("setlang", u, "lang_invalid")
            /\ UNCHANGED user_preferences
       ELSE IF Locked
       THEN \* set_user_language raises OperationalError outside any try:
            \* error_handler answers
            /\ reply' = ErrorHandlerMsg("setlang", u)
            /\ UNCHANGED user_preferences
       ELSE /\ user_preferences' = set_user_language(user_preferences, u, args[1])
            /\ reply' = [Msg("setlang", u, "lang_set") EXCEPT !.lang = args[1]]
    /\ UNCHANGED <<awaiting, variant, transactions, sqlite_sequence, write_lock, tmp_files>>

\* src/main.py lower-cases the code and takes "en" when none is given
main_set_language(u, args) ==
    /\ variant = "main"
    /\ LET lang_code == IF args # <<>> THEN Lower(args[1]) ELSE "en"
       IN  IF lang_code \notin LANGUAGES
           THEN /\ reply' = Msg("setlang", u, "lang_invalid")
                /\ UNCHANGED user_preferences
           ELSE IF Locked
           THEN \* set_user_language raises OperationalError: no handler
                /\ reply' = Raised("setlang", u)
                /\ UNCHANGED user_preferences
           ELSE /\ user_preferences' =
                       set_user_language(user_preferences, u, lang_code)
                /\ reply' = [Msg("setlang", u, "lang_set") EXCEPT !.lang = lang_code]
    /\ UNCHANGED <<awaiting, variant, transactions, sqlite_sequence, write_lock, tmp_files>>

----------------------------------------------------------------------------
(* /report start end [category], src/unnamed/part_000 only.  A date        *)
(* argument is the text the caller typed for the day of the month.  A      *)
(* reply names the range and the category the query was given, and the     *)
(* category word as the caller typed it.                                   *)

\* datetime.strptime(text, "%Y-%m-%d") raises ValueError: %d takes one or
\* two digits that name a day of the month
StrptimeRaises(text) ==
    \/ Len(text) \notin {1, 2}
    \/ \E i \in 1..Len(text) : text[i] \notin 0..9
    \/ (IF Len(text) = 1 THEN text[1] ELSE 10 * text[1] + text[2]) \notin 1..31

\* the day strptime reads from a text it accepts
StrptimeDay(text) == IF Len(text) = 1 THEN text[1] ELSE 10 * text[1] + text[2]

\* the query with AND amount != 0 added: rows of amount 0 never match
SelectReport_NonZero(table, u, start_date, end_date, category) ==
    SelectSeq(table, LAMBDA r :
        /\ r.user_id = u
        /\ r.amount # 0
        /\ Between(r.date, start_date \o <<Blank, StartOfDay>>,
                           end_date \o <<Blank, EndOfDay>>)
        /\ (category # <<>> => r.category = category[1]))

\* WHERE user_id = ? AND date BETWEEN ? AND ? [AND category = ?]
\* category is <<>> (None) or <<c>>
SelectReport(table, u, start_date, end_date, category) ==
    SelectSeq(table, LAMBDA r :
        /\ r.user_id = u
        /\ Between(r.date, start_date \o <<Blank, StartOfDay>>,
                           end_date \o <<Blank, EndOfDay>>)
        /\ (category # <<>> => r.category = category[1]))

generate_report(u, args) ==
    /\ variant = "part_000"
    /\ IF Len(args) < 2
       THEN reply' = Msg("report", u, "format")
       ELSE LET start_date == args[1]
                end_date == args[2]
                category == IF Len(args) > 2 THEN <<Lower(args[3])>> ELSE <<>>
            IN  IF StrptimeRaises(start_date) \/ StrptimeRaises(end_date)
                THEN reply' = Msg("report", u, "invalid_date")
                ELSE LET amounts == SelectReport(transactions, u, start_date,
                                                 end_date, category)
                         income == SumPositive(amounts)
                         expenses == SumNegative(amounts)
                     IN  reply' =
                             IF amounts = <<>>
                             THEN Msg("report", u, "no_transactions")
                                  @@ [start |-> start_date, end |-> end_date,
                                      category |-> category,
                                      typed |-> IF Len(args) > 2 THEN <<args[3]>> ELSE <<>>]
                             ELSE Msg("report", u, "report")
                                  @@ [start |-> start_date, end |-> end_date,
                                      category |-> category,
                                      typed |-> IF Len(args) > 2 THEN <<args[3]>> ELSE <<>>,
                                      income |-> income,
                                      expenses |-> Abs(expenses),
                                      total |-> income + expenses,
                                      count |-> Len(amounts)]
    /\ UNCHANGED <<awaiting, variant, transactions, sqlite_sequence, user_preferences,
                   write_lock, tmp_files>>

----------------------------------------------------------------------------
(* /history.                                                               *)

\* LIMIT 10, and "if total_count > 10", of src/unnamed/part_000
HistoryLimit == 10

\* rows[:20] of src/main.py
MainHistoryLimit == 20

\* SELECT date, amount, category, description: the columns of one row
HistoryColumns(r) ==
    [date |-> r.date, amount |-> r.amount,
     category |-> r.category, description |-> r.description]

\* the sequence without the first element equal to x
RemoveOne(rows, x) ==
    LET i == CHOOSE j \in 1..Len(rows) :
                 rows[j] = x /\ \A k \in 1..(j - 1) : rows[k] # x
    IN  SubSeq(rows, 1, i - 1) \o SubSeq(rows, i + 1, Len(rows))

RECURSIVE OrderByDateDesc(_)
\* ORDER BY date DESC: every order of the rows in which the dates never
\* increase (SQL leaves the order of equal dates open)
OrderByDateDesc(rows) ==
    IF rows = <<>> THEN {<<>>}
    ELSE LET latest == {rows[j] : j \in
                           {i \in 1..Len(rows) : \A k \in 1..Len(rows) :
                                TextLeq(rows[k].date, rows[i].date)}}
         IN  UNION {{<<x>> \o rest : rest \in OrderByDateDesc(RemoveOne(rows, x))}
                       : x \in latest}

\* rows[:n]
Truncate(rows, n) == SubSeq(rows, 1, IF Len(rows) < n THEN Len(rows) ELSE n)

\* the columns of every row of a selection
SelectHistory(table, u) ==
    LET rows == SelectByUser(table, u)
    IN  [i \in 1..Len(rows) |-> HistoryColumns(rows[i])]

\* one entry of the full bot's message: strftime("%m/%d %H:%M") keeps the
\* day and the minute of the stored date
HistoryEntry(t) ==
    [day |-> DayOfText(t.date), minute |-> t.date[4] \div 60,
     amount |-> t.amount, category |-> t.category,
     description |-> t.description,
     emoji |-> IF t.amount > 0 THEN "income" ELSE "expense"]

\* one line of the reduced bot's message: the stored date as it is
MainHistoryEntry(t) ==
    [day |-> DayOfText(t.date), minute |-> t.date[4] \div 60,
     second |-> t.date[4] % 60,
     amount |-> t.amount, category |-> t.category,
     description |-> t.description]

\* omitted: <<>> when the message names no further transactions, <<n>>
\* for "... and n more transactions"
show_history(u) ==
    /\ variant = "part_000"
    /\ \E ordered \in OrderByDateDesc(SelectHistory(transactions, u)) :
          LET transactions_data == Truncate(ordered, HistoryLimit)
              total_count == SelectCount(transactions, u)
          IN  reply' =
                  IF transactions_data = <<>>
                  THEN Msg("history", u, "no_transactions_found")
                  ELSE Msg("history", u, "history")
                       @@ [entries |-> [i \in 1..Len(transactions_data) |->
                                           HistoryEntry(transactions_data[i])],
                           omitted |-> IF total_count > HistoryLimit
                                       THEN <<total_count - HistoryLimit>>
                                       ELSE <<>>]
    /\ UNCHANGED <<awaiting, variant, transactions, sqlite_sequence, user_preferences,
                   write_lock, tmp_files>>

\* src/main.py selects every row, prints the first 20 and never says how
\* many it left out
main_show_history(u) ==
    /\ variant = "main"
    /\ \E rows \in OrderByDateDesc(SelectHistory(transactions, u)) :
          reply' =
              IF rows = <<>>
              THEN Msg("history", u, "no_transactions")
              ELSE Msg("history", u, "history")
                   @@ [entries |-> [i \in 1..Len(Truncate(rows, MainHistoryLimit)) |->
                                       MainHistoryEntry(rows[i])],
                       omitted |-> <<>>]
    /\ UNCHANGED <<awaiting, variant, transactions, sqlite_sequence, user_preferences,
                   write_lock, tmp_files>>

----------------------------------------------------------------------------
(* /export.                                                                *)

\* the permutations of 1..n
IndexOrders(n) == {p \in [1..n -> 1..n] : \A i \in 1..n : \E j \in 1..n : p[j] = i}

\* the rows as the table holds them, unsorted
OrderByDateAsc_RowidOrder(rows) == {rows}

\* ORDER BY date ASC: every order of the rows in which the dates never
\* decrease (SQL leaves the order of equal dates open)
OrderByDateAsc(rows) ==
    {[i \in 1..Len(rows) |-> rows[p[i]]] : p \in
        {q \in IndexOrders(Len(rows)) :
            \A i \in 1..(Len(rows) - 1) : TextLeq(rows[q[i]].date, rows[q[i + 1]].date)}}

RECURSIVE SheetRows(_, _)
\* the data rows of the sheet: running_balance starts at the given value
\* and is raised by each row's amount before the row is written
SheetRows(transactions_data, running_balance) ==
    IF transactions_data = <<>> THEN <<>>
    ELSE LET t == Head(transactions_data)
         IN  <<[date |-> SubSeq(t.date, 1, 2), time |-> t.date[4],
                amount |-> t.amount, category |-> t.category,
                type |-> IF t.amount > 0 THEN "Income" ELSE "Expense",
                description |-> t.description,
                running_balance |-> running_balance + t.amount]>>
             \o SheetRows(Tail(transactions_data), running_balance + t.amount)

export_transactions_net(u, net) ==
    /\ variant = "part_000"
    /\ \E transactions_data \in OrderByDateAsc(SelectByUser(transactions, u)) :
          LET error == Msg("export", u, "error")
              handler == ErrorHandlerMsg("export", u)
              nothing == Raised("export", u)
              exporting == Msg("export", u, "exporting")
              document ==
                  Msg("export", u, "document")
                  @@ [sheet |-> SheetRows(transactions_data, 0),
                      total_income |-> SumPositive(transactions_data),
                      total_expenses |-> Abs(SumNegative(transactions_data)),
                      final_balance |-> SumAmounts(transactions_data),
                      count |-> Len(transactions_data)]
          IN  IF transactions_data = <<>>
              THEN /\ reply' = IF Ok(net, 1)
                               THEN Msg("export", u, "nothing_to_export")
                               ELSE AfterException(net, 2, error, handler, nothing)
                   /\ UNCHANGED tmp_files
              ELSE IF ~Ok(net, 1)
              THEN \* the "exporting" message raised
                   /\ reply' = AfterException(net, 2, error, handler, nothing)
                   /\ UNCHANGED tmp_files
              ELSE \* "exporting" is sent, the workbook saved to a temporary file
                   /\ CanCreateTmp
                   /\ IF Ok(net, 2)
                      THEN \* the document is sent second, then os.unlink
                           /\ reply' = [document EXCEPT !.sent = 2]
                           /\ UNCHANGED tmp_files
                      ELSE \* reply_document raised: os.unlink is skipped
                           /\ reply' = AfterException(net, 3, error, handler,
                                                      exporting)
                           /\ tmp_files' = tmp_files \cup {NamedTemporaryFile}
    /\ UNCHANGED <<awaiting, variant, transactions, sqlite_sequence, user_preferences,
                   write_lock>>

export_transactions(u) == export_transactions_net(u, AllSucceed)

\* src/main.py writes the rows as selected, with no running balance, to a
\* file named after the caller and never removes it
main_export_excel(u) ==
    /\ variant = "main"
    /\ LET df == SelectByUser(transactions, u)
       IN  IF df = <<>>
           THEN /\ reply' = Msg("export", u, "no_transactions")
                /\ UNCHANGED tmp_files
           ELSE /\ reply' = Msg("export", u, "document") @@ [sheet |-> df]
                /\ tmp_files' = tmp_files \cup {ExportPath(u)}
    /\ UNCHANGED <<awaiting, variant, transactions, sqlite_sequence, user_preferences,
                   write_lock>>

----------------------------------------------------------------------------
(* An uploaded table, src/unnamed/part_000 only.  A cell is NaN (empty),   *)
(* or holds a value; of a Date cell pandas either makes a moment or        *)
(* raises ValueError; an Amount cell goes through float().                 *)

EmptyCell == [k |-> "nan"]
DateCell(day, tod) == [k |-> "date", day |-> day, tod |-> tod]
BadDateCell == [k |-> "text"]
StrCell(s) == [k |-> "str", s |-> s]

\* pd.isna(value)
IsNa(cell) == cell.k = "nan"

\* pd.to_datetime(value) raises ValueError
ToDatetimeRaises(cell) == cell.k = "text"

\* row.get(col, default): the cell, or the default when the table has no
\* such column
RowGet(df, row, col, default) ==
    IF col \in df.columns THEN row[col] ELSE default

\* float(row['Amount']): an empty cell is NaN and passes
CellWord(cell) == IF IsNa(cell) THEN NaN ELSE cell

\* One pass of the for loop of handle_file over the rows left, from the
\* table and counter reached so far.  raised: an exception other than
\* ValueError/TypeError left the loop, with rows_added rows inserted.
RECURSIVE ProcessRows(_, _, _, _, _, _)
ProcessRows(df, rows, u, table, seq, rows_added) ==
    IF rows = <<>>
    THEN [table |-> table, seq |-> seq, rows_added |-> rows_added, raised |-> FALSE]
    ELSE LET row == Head(rows)
             date_val == RowGet(df, row, "Date", EmptyCell)
             skip == ProcessRows(df, Tail(rows), u, table, seq, rows_added)
         IN  IF IsNa(date_val) THEN skip
             ELSE IF ToDatetimeRaises(date_val) THEN skip
             ELSE IF "Amount" \notin df.columns
             THEN \* row['Amount'] raises KeyError
                  [table |-> table, seq |-> seq,
                   rows_added |-> rows_added, raised |-> TRUE]
             ELSE IF FloatRaises(CellWord(row["Amount"])) THEN skip
             ELSE LET date_str == strftime(date_val.day, date_val.tod)
                      amount == Float(CellWord(row["Amount"]))
                      category_val == RowGet(df, row, "Category", StrCell("other"))
                      category == IF ~IsNa(category_val)
                                  THEN Lower(category_val.s) ELSE "other"
                      description_val ==
                          RowGet(df, row, "Description", StrCell(category))
                      description == IF ~IsNa(description_val)
                                     THEN description_val.s ELSE category
                  IN  IF Locked \/ ViolatesNotNull(amount)
                      THEN \* OperationalError, or IntegrityError
                           [table |-> table, seq |-> seq,
                            rows_added |-> rows_added, raised |-> TRUE]
                      ELSE ProcessRows(df, Tail(rows), u,
                                       InsertRow(table, seq + 1, u, date_str,
                                                 amount.v, category, description),
                                       seq + 1, rows_added + 1)

\* any(col in df.columns for col in required_columns)
HasRequiredColumns_Any(df) == required_columns \cap df.columns # {}

\* all(col in df.columns for col in required_columns)
HasRequiredColumns(df) == required_columns \subseteq df.columns

\* what the tables hold when the connection's transaction is kept open:
\* every INSERT the connection made (as if each were committed at once)
AfterRaise_Autocommit(committed, inserted) == inserted

\* what the tables hold after an exception left the loop before
\* conn.commit(): the inserts of the open transaction are not in them
AfterRaise(committed, inserted) == committed

\* a reply to an upload: the message, which upload it answers, and the
\* handler's rows_added when it ended
FileMsg(u, kind, readable, df, rows_added) ==
    Msg("file", u, kind)
    @@ [readable |-> readable, columns |-> df.columns, rows_added |-> rows_added]

\* handle_file: df is the uploaded table, readable is whether pandas could
\* read the file at all
handle_file_step(u, net, readable, df, concurrent) ==
    /\ variant = "part_000"
    /\ LET error == FileMsg(u, "file_error", readable, df, 0)
           handler == FileMsg(u, "unexpected_error", readable, df, 0)
           nothing == [FileMsg(u, "raised", readable, df, 0) EXCEPT !.sent = 0]
       IN  IF ~Ok(net, 1)
           THEN \* get_file raised
                /\ Send(concurrent, AfterException(net, 2, error, handler, nothing))
                /\ UNCHANGED <<transactions, sqlite_sequence, write_lock, tmp_files>>
           ELSE IF ~Ok(net, 2)
           THEN \* download_to_drive raised inside the with block: the
                \* temporary file is closed and stays
                /\ CanCreateTmp
                /\ tmp_files' = tmp_files \cup {NamedTemporaryFile}
                /\ Send(concurrent, AfterException(net, 3, error, handler, nothing))
                /\ UNCHANGED <<transactions, sqlite_sequence, write_lock>>
           ELSE IF ~readable
           THEN \* pd.read_csv / pd.read_excel raised: reply, then os.unlink
                /\ CanCreateTmp
                /\ IF Ok(net, 3)
                   THEN /\ Send(concurrent, error)
                        /\ UNCHANGED tmp_files
                   ELSE /\ Send(concurrent, AfterException(net, 4, error, handler, nothing))
                        /\ tmp_files' = tmp_files \cup {NamedTemporaryFile}
                /\ UNCHANGED <<transactions, sqlite_sequence, write_lock>>
           ELSE IF ~HasRequiredColumns(df)
           THEN /\ CanCreateTmp
                /\ Send(concurrent, IF Ok(net, 3) THEN error
                            ELSE AfterException(net, 4, error, handler, nothing))
                /\ UNCHANGED <<transactions, sqlite_sequence, write_lock, tmp_files>>
           ELSE LET done == ProcessRows(df, df.rows, u, transactions,
                                        sqlite_sequence, 0)
                IN  /\ CanCreateTmp
                    /\ UNCHANGED tmp_files
                    /\ IF done.raised
                       THEN \* caught by except Exception before conn.commit(),
                            \* which neither rolls back nor closes
                            /\ transactions' = AfterRaise(transactions, done.table)
                            /\ sqlite_sequence' =
                                   AfterRaise(sqlite_sequence, done.seq)
                            /\ write_lock' = IF Locked THEN write_lock
                                             ELSE LeftOpen(done.rows_added)
                            /\ Send(concurrent,
                                   AfterException(net, 3,
                                       FileMsg(u, "file_error", readable, df,
                                               done.rows_added),
                                       FileMsg(u, "unexpected_error", readable,
                                               df, done.rows_added),
                                       [nothing EXCEPT
                                           !.rows_added = done.rows_added]))
                       ELSE /\ done.seq <= MaxId
                            /\ transactions' = done.table
                            /\ sqlite_sequence' = done.seq
                            /\ UNCHANGED write_lock
                            /\ Send(concurrent,
                                   IF Ok(net, 3)
                                   THEN FileMsg(u, "file_processed", readable, df,
                                                done.rows_added)
                                        @@ [rows |-> done.rows_added,
                                            balance |->
                                                OrZero(SelectSum(done.table, u))]
                                   ELSE AfterException(net, 4,
                                            FileMsg(u, "file_error", readable, df,
                                                    done.rows_added),
                                            FileMsg(u, "unexpected_error",
                                                    readable, df, done.rows_added),
                                            [nothing EXCEPT
                                                !.rows_added = done.rows_added]))
    /\ UNCHANGED <<variant, user_preferences>>

\* the dispatcher awaits each handler before it starts the next
handle_file_net(u, net, readable, df) ==
    handle_file_step(u, net, readable, df, FALSE)

handle_file(u, readable, df) == handle_file_net(u, AllSucceed, readable, df)

----------------------------------------------------------------------------
(* The inputs the callers send.                                            *)

Amounts == {-1, 0, 2}
AmountWords == {Num(a) : a \in Amounts} \cup {NaN, NotANumber}

\* the tables with the given columns and at most MaxBatch rows, each row
\* drawn from the given cells; a column the table lacks holds nothing
TablesOf(columns, dates, amounts, categories, descriptions) ==
    LET Rows == [Date : IF "Date" \in columns THEN dates ELSE {EmptyCell},
                 Amount : IF "Amount" \in columns THEN amounts ELSE {EmptyCell},
                 Category : IF "Category" \in columns THEN categories
                            ELSE {EmptyCell},
                 Description : IF "Description" \in columns THEN descriptions
                               ELSE {EmptyCell}]
    IN  [columns : {columns}, rows : UNION {[1..n -> Rows] : n \in 0..MaxBatch}]

\* what is left of an upload pandas could not read
NoTable == [columns |-> {}, rows |-> <<>>]

----------------------------------------------------------------------------
(* Spec: the ledger.  Both programs; /add, /balance and /clear by two      *)
(* callers and uploads by one, all at one moment, every amount; a          *)
(* connection a failed insert left open is freed at any time.              *)

LedgerMoments == {<<1, StartOfDay>>}

LedgerAddArgs == {<<>>} \cup {<<w, "Food">> : w \in AmountWords}

LedgerTables ==
    TablesOf({"Date", "Amount", "Category"}, {DateCell(1, StartOfDay)},
             {Num(-1), Num(2)}, {StrCell("Food")}, {EmptyCell})

Next ==
    \/ \E u \in Users, args \in LedgerAddArgs, now \in LedgerMoments :
          add_transaction(u, args, now)
    \/ \E u \in Users, args \in LedgerAddArgs, now \in LedgerMoments :
          main_add_transaction(u, args, now)
    \/ \E u \in Users : show_balance(u)
    \/ \E u \in Users : main_show_balance(u)
    \/ \E u \in Users : clear_transactions(u)
    \/ \E u \in Users : main_clear_transactions(u)
    \/ \E df \in LedgerTables : handle_file(1, TRUE, df)
    \/ handle_file(1, FALSE, NoTable)
    \/ gc_collect

Spec == Init /\ [][Next]_vars

----------------------------------------------------------------------------
(* SpecImport: uploads to the full bot.  Caller 1 uploads tables with and  *)
(* without the required columns, whose rows are valid or have one empty    *)
(* or unreadable cell; caller 2 adds, so that the store holds rows of      *)
(* somebody else; a connection a failed upload left open is freed at any   *)
(* time.                                                                   *)

InitFull == Init /\ variant = "part_000"

ImportDateCells == {EmptyCell, BadDateCell, DateCell(1, StartOfDay)}
ImportAmountCells == {EmptyCell, NotANumber, Num(2)}

\* a row of an upload with the Date and Amount columns: valid, or with one
\* bad cell
ImportRows ==
    {[Date |-> c[1], Amount |-> c[2],
      Category |-> EmptyCell, Description |-> EmptyCell] :
        c \in ({DateCell(1, StartOfDay)} \X ImportAmountCells)
               \cup (ImportDateCells \X {Num(2)})}

ImportTables ==
    [columns : {{"Date", "Amount"}},
     rows : UNION {[1..n -> ImportRows] : n \in 0..MaxBatch}]
    \cup TablesOf({"Date"}, {DateCell(1, StartOfDay)}, {}, {}, {})
    \cup TablesOf({"Amount"}, {}, {Num(2)}, {}, {})

NextImport ==
    \/ \E df \in ImportTables : handle_file(1, TRUE, df)
    \/ handle_file(1, FALSE, NoTable)
    \/ add_transaction(2, <<Num(2), "Food">>, <<1, StartOfDay>>)
    \/ \E u \in Users : clear_transactions(u)
    \/ gc_collect

SpecImport == InitFull /\ [][NextImport]_vars

----------------------------------------------------------------------------
(* SpecLang: the language preference, in both programs, with and without   *)
(* a connection left open by a failed /add.                                *)

LangArgs == {<<>>, <<"ru">>, <<"kg">>, <<"RU">>, <<"de">>}

NextLang ==
    \/ \E u \in Users, args \in LangArgs : set_language(u, args)
    \/ \E u \in Users, args \in LangArgs : main_set_language(u, args)
    \/ \E u \in Users : show_balance(u)
    \/ \E u \in Users : main_show_balance(u)
    \/ \E u \in Users, w \in {Num(2), NaN} :
          add_transaction(u, <<w, "Food">>, <<1, StartOfDay>>)
    \/ \E u \in Users, w \in {Num(2), NaN} :
          main_add_transaction(u, <<w, "Food">>, <<1, StartOfDay>>)
    \/ gc_collect

SpecLang == Init /\ [][NextLang]_vars

----------------------------------------------------------------------------
(* SpecDates: the full bot over two days.  Rows fall on the first and the  *)
(* last second of either day; /report is asked for single days, typed with *)
(* and without the leading zero, for a range, and for a text that is no    *)
(* date, by caller 1.                                                      *)

Days == {1, 2}
Moments == Days \X {StartOfDay, EndOfDay}

\* a day typed with or without its leading zero, and a text that is no day
DateWords == {PadDay(d) : d \in Days} \cup {<<d>> : d \in Days} \cup {<<9, 9>>}

ReportArgs ==
    {<<>>} \cup {<<s, s>> : s \in DateWords}
    \cup {<<PadDay(1), PadDay(2)>>, <<PadDay(2), PadDay(1)>>,
          <<PadDay(1), <<1>>>>, <<PadDay(1), PadDay(1), "Food">>}

NextDates ==
    \/ \E u \in Users, now \in Moments :
          add_transaction(u, <<Num(2), "Food">>, now)
    \/ \E u \in Users : clear_transactions(u)
    \/ \E args \in ReportArgs : generate_report(1, args)

SpecDates == InitFull /\ [][NextDates]_vars

----------------------------------------------------------------------------
(* SpecExport: /export of the full bot.  Rows of either sign are added out *)
(* of date order and at equal dates.                                       *)

ExportMoments == {<<1, EndOfDay>>, <<2, StartOfDay>>}

NextExport ==
    \/ \E u \in Users, a \in {-1, 2}, now \in ExportMoments :
          add_transaction(u, <<Num(a), "Food">>, now)
    \/ \E u \in Users : clear_transactions(u)
    \/ \E u \in Users : export_transactions(u)

SpecExport == InitFull /\ [][NextExport]_vars


----------------------------------------------------------------------------
(* SpecHistory: /history in both programs.  One caller adds up to          *)
(* MaxHistoryId rows, more than the full bot shows, on two days and out of *)
(* date order; the other caller may add the first row, the latest of all.  *)

\* transactions.id never exceeds MaxHistoryId under SpecHistory
MaxHistoryId == 12

HistoryMoments == {<<1, EndOfDay>>, <<2, StartOfDay>>}

NextHistory ==
    \/ \E now \in HistoryMoments :
          add_transaction_upto(1, <<Num(2), "Food">>, now, MaxHistoryId)
    \/ \E now \in HistoryMoments :
          main_add_transaction_upto(1, <<Num(2), "Food">>, now, MaxHistoryId)
    \/ /\ transactions = <<>>
       /\ add_transaction_upto(2, <<Num(-1), "Food">>, <<2, EndOfDay>>, MaxHistoryId)
    \/ /\ transactions = <<>>
       /\ main_add_transaction_upto(2, <<Num(-1), "Food">>, <<2, EndOfDay>>, MaxHistoryId)
    \/ \E u \in Users : show_history(u)
    \/ \E u \in Users : main_show_history(u)

SpecHistory == Init /\ [][NextHistory]_vars

----------------------------------------------------------------------------
(* SpecReport: /report of the full bot over amounts of either sign and of  *)
(* amount 0.  Caller 1 adds on two days and asks for ranges typed with the *)
(* leading zero, with and without a category; caller 2 adds one kind of    *)
(* row.                                                                    *)

ReportMoments == {<<1, StartOfDay>>, <<2, StartOfDay>>}

RangeArgs ==
    {<<PadDay(1), PadDay(1)>>, <<PadDay(1), PadDay(2)>>,
     <<PadDay(2), PadDay(1)>>, <<PadDay(2), PadDay(2)>>,
     <<PadDay(1), PadDay(2), "Food">>, <<PadDay(1), PadDay(2), "rent">>}

NextReport ==
    \/ \E a \in Amounts, now \in ReportMoments :
          add_transaction(1, <<Num(a), "Food">>, now)
    \/ add_transaction(2, <<Num(2), "Food">>, <<1, StartOfDay>>)
    \/ \E args \in RangeArgs : generate_report(1, args)

SpecReport == InitFull /\ [][NextReport]_vars

----------------------------------------------------------------------------
(* SpecCategory: what /add and uploads store as category and description,  *)
(* and what /report finds by category.  One caller, one moment, one        *)
(* amount; the category is typed in several letter cases or left out, the  *)
(* description is given or left out; uploads come with and without the     *)
(* Category and Description columns, and with empty cells in them.         *)

CategoryMoment == <<1, StartOfDay>>

CategoryAddArgs ==
    {<<Num(2)>>, <<Num(2), "Food">>, <<Num(2), "food">>,
     <<Num(2), "FOOD", "Lunch">>}

CategoryTables ==
    TablesOf({"Date", "Amount"}, {DateCell(1, StartOfDay)}, {Num(2)}, {}, {})
    \cup TablesOf({"Date", "Amount", "Description"}, {DateCell(1, StartOfDay)},
                  {Num(2)}, {}, {StrCell("Lunch")})
    \cup TablesOf({"Date", "Amount", "Category", "Description"},
                  {DateCell(1, StartOfDay)}, {Num(2)},
                  {EmptyCell, StrCell("Food")}, {EmptyCell})

CategoryReportArgs ==
    {<<PadDay(1), PadDay(1), c>> : c \in {"Food", "FOOD", "food", "Other", "rent"}}

NextCategory ==
    \/ \E args \in CategoryAddArgs : add_transaction(1, args, CategoryMoment)
    \/ \E args \in CategoryAddArgs : main_add_transaction(1, args, CategoryMoment)
    \/ \E df \in CategoryTables : handle_file(1, TRUE, df)
    \/ \E args \in CategoryReportArgs : generate_report(1, args)

SpecCategory == Init /\ [][NextCategory]_vars

----------------------------------------------------------------------------
(* SpecFiles: the messages and the files of /export and of uploads, in     *)
(* both programs, when calls of the Telegram API may raise.  Two callers   *)
(* add one kind of row; caller 1 uploads; each of the first MaxCalls calls *)
(* of an invocation succeeds or raises.                                    *)

\* the calls of one invocation that may raise
MaxCalls == 3

\* every call succeeds, or the last call named raises
Nets ==
    {net \in UNION {[1..n -> BOOLEAN] : n \in 0..MaxCalls} :
        net = AllSucceed \/ ~net[Len(net)]}

FileMoment == <<1, StartOfDay>>

FileTables ==
    TablesOf({"Date", "Amount"}, {DateCell(1, StartOfDay)},
             {Num(2), EmptyCell}, {}, {})
    \cup TablesOf({"Date"}, {DateCell(1, StartOfDay)}, {}, {}, {})

NextFiles ==
    \/ \E u \in Users : add_transaction(u, <<Num(2), "Food">>, FileMoment)
    \/ \E u \in Users : main_add_transaction(u, <<Num(2), "Food">>, FileMoment)
    \/ \E u \in Users, net \in Nets : export_transactions_net(u, net)
    \/ \E u \in Users : main_export_excel(u)
    \/ \E net \in Nets, df \in FileTables : handle_file_net(1, net, TRUE, df)
    \/ \E net \in Nets : handle_file_net(1, net, FALSE, NoTable)
    \/ \E u \in Users : show_balance(u)
    \/ \E u \in Users : main_show_balance(u)
    \/ \E u \in Users : clear_transactions(u)
    \/ \E u \in Users : main_clear_transactions(u)
    \/ gc_collect

SpecFiles == Init /\ [][NextFiles]_vars

----------------------------------------------------------------------------
(* SpecInterleave: /add, uploads and /clear of one caller in the full bot, *)
(* run concurrently.  A handler runs from one await to the next without    *)
(* interruption; its only await after it opened its connection is the      *)
(* reply, so a step is a handler up to that await, where it waits while    *)
(* other handlers run, and the replies return in any order.  Before its    *)
(* first database access an upload has changed nothing in the store, so    *)
(* its step begins where download_to_drive returned.  The amounts typed    *)
(* are 2 and NaN, whose insert fails and leaves its connection open; the   *)
(* rows of an upload all have the amount 2.                                *)

InterleaveMoment == <<1, StartOfDay>>

InterleaveAddArgs == {<<w, "Food">> : w \in {Num(2), NaN}}

InterleaveTables ==
    TablesOf({"Date", "Amount"}, {DateCell(1, StartOfDay)}, {Num(2)}, {}, {})

NextInterleave ==
    \/ \E args \in InterleaveAddArgs :
          add_transaction_step(1, args, InterleaveMoment, MaxId, TRUE)
    \/ \E df \in InterleaveTables :
          handle_file_step(1, AllSucceed, TRUE, df, TRUE)
    \/ clear_transactions_step(1, TRUE)
    \/ reply_text_returns
    \/ gc_collect

SpecInterleave == InitFull /\ [][NextInterleave]_vars

----------------------------------------------------------------------------
(* What the claims speak of, said without the handlers' own queries.       *)
RECURSIVE AlgebraicSum(_)
\* the sum of the amounts at a set of positions of the table
AlgebraicSum(S) ==
    IF S = {} THEN 0
    ELSE LET i == CHOOSE j \in S : TRUE
         IN  transactions[i].amount + AlgebraicSum(S \ {i})

\* C1: the balance /add and an upload report is the algebraic sum of the
\* amounts of the caller's stored transactions, whatever adds, uploads and
\* clears came before, and 0 when the caller has none.
C1_BalanceIsAlgebraicSum ==
    reply.kind \in {"added", "file_processed"} =>
        reply.balance = AlgebraicSum(UserRows(reply.user))

\* an add answered with 2 - 1 = 1 after an earlier row was cleared
C1_Witness ==
    /\ reply.kind = "added"
    /\ Cardinality(UserRows(reply.user)) >= 2
    /\ reply.balance = 1
    /\ sqlite_sequence > Len(transactions)

\* C2: in a balance summary, income - expenses = balance, where income is
\* the sum of the amounts > 0, expenses the magnitude of the sum of the
\* amounts < 0 and balance the sum of all; a zero amount is counted and
\* adds to neither.
C2_IncomeMinusExpensesIsBalance ==
    reply.kind = "balance" =>
        LET mine == UserRows(reply.user)
        IN  /\ mine # {}
            /\ reply.income - reply.expenses = reply.balance
            /\ reply.income =
                   AlgebraicSum({i \in mine : transactions[i].amount > 0})
            /\ reply.expenses =
                   -AlgebraicSum({i \in mine : transactions[i].amount < 0})
            /\ reply.expenses >= 0
            /\ reply.balance = AlgebraicSum(mine)
            /\ reply.count = Cardinality(mine)

C2_Witness ==
    /\ reply.kind = "balance"
    /\ reply.income > 0
    /\ reply.expenses > 0
    /\ reply.count = 3
    /\ \E i \in UserRows(reply.user) : transactions[i].amount = 0

\* C6: right after a clear by a user has completed (it answered "cleared"
\* or "nothing to clear", not with a failure of the delete), listing that
\* user's transactions gives the empty sequence and the user's sum is 0,
\* whatever came before.
C6_ClearedLedgerIsEmpty ==
    (reply.op = "clear" /\ reply.kind \in {"cleared", "nothing_to_clear"}) =>
        /\ SelectByUser(transactions, reply.user) = <<>>
        /\ UserRows(reply.user) = {}
        /\ OrZero(SelectSum(transactions, reply.user)) = 0

C6_Witness ==
    /\ reply.op = "clear"
    /\ reply.kind = "cleared"
    /\ sqlite_sequence = Len(transactions) + 2
    /\ transactions # <<>>

\* C7: /clear of the full bot reports as removed the number of the
\* caller's transactions stored just before the delete, and removes that
\* many rows; with none stored it reports nothing removed and leaves the
\* whole store as it was.  (A delete that the write lock of a connection
\* left open makes fail is answered with the error message and removes
\* nothing.  /clear of src/main.py reports no count; with none stored it
\* too leaves the store as it was.)
C7_ClearReportsRemovedCount ==
    [][\A u \in Users :
         /\ clear_transactions(u) =>
                IF UserRows(u) = {}
                THEN /\ reply'.kind = "nothing_to_clear"
                     /\ UNCHANGED <<transactions, sqlite_sequence, user_preferences>>
                ELSE IF Locked
                THEN /\ reply'.kind = "error"
                     /\ UNCHANGED <<transactions, sqlite_sequence, user_preferences>>
                ELSE /\ reply'.kind = "cleared"
                     /\ reply'.count = Cardinality(UserRows(u))
                     /\ Len(transactions') = Len(transactions) - reply'.count
         /\ (main_clear_transactions(u) /\ UserRows(u) = {}) =>
                UNCHANGED <<transactions, sqlite_sequence, user_preferences>>]_vars

C7_Witness ==
    /\ variant = "part_000"
    /\ reply.kind = "cleared"
    /\ reply.count = 2
    /\ Len(transactions) = 1

----------------------------------------------------------------------------
(* /export, under SpecExport.                                              *)

\* a sheet row's moment, in seconds
SheetStamp(row) == (EndOfDay + 1) * DayOfText(row.date) + row.time

RECURSIVE PrefixSum(_, _)
\* the sum of the amounts of the first i rows of a sheet
PrefixSum(sheet, i) ==
    IF i = 0 THEN 0 ELSE sheet[i].amount + PrefixSum(sheet, i - 1)

\* C3: an exported sheet lists the caller's rows by ascending timestamp,
\* each row's running balance is the sum of the amounts down to that row,
\* and the last running balance is the caller's sum, the exported final
\* balance.
C3_RunningBalanceSeries ==
    reply.kind = "document" =>
        LET sheet == reply.sheet
            n == Len(sheet)
        IN  /\ n >= 1
            /\ n = Cardinality(UserRows(reply.user))
            /\ \A i \in 1..(n - 1) : SheetStamp(sheet[i]) <= SheetStamp(sheet[i + 1])
            /\ \A i \in 1..n : sheet[i].running_balance = PrefixSum(sheet, i)
            /\ sheet[n].running_balance =
                   OrZero(SelectSum(transactions, reply.user))
            /\ sheet[n].running_balance = reply.final_balance
            /\ reply.final_balance = AlgebraicSum(UserRows(reply.user))

\* a sheet of three rows of both signs whose date order is not the order
\* they were added in
C3_Witness ==
    /\ reply.kind = "document"
    /\ Len(reply.sheet) = 3
    /\ reply.sheet[1].amount = 2
    /\ reply.sheet[2].amount = -1
    /\ reply.sheet[2].running_balance = 1
    /\ SheetStamp(reply.sheet[1]) < SheetStamp(reply.sheet[3])
    /\ \E i, j \in UserRows(reply.user) :
          i < j /\ TextLess(transactions[j].date, transactions[i].date)

----------------------------------------------------------------------------
(* Uploads, under SpecImport.                                              *)

\* pandas makes a moment of the cell
DateIsValid(cell) == ~IsNa(cell) /\ ~ToDatetimeRaises(cell)

\* the cell holds a number
AmountIsNumber(cell) == cell.k = "num"

WithColumns == {t \in ImportTables : required_columns \subseteq t.columns}
WithValidDates ==
    {t \in WithColumns : \A i \in 1..Len(t.rows) : DateIsValid(t.rows[i].Date)}

\* the rows of an upload that are valid, in the upload's order
ValidRows(df) ==
    SelectSeq(df.rows, LAMBDA r : DateIsValid(r.Date) /\ AmountIsNumber(r.Amount))

RECURSIVE SumCells(_)
\* the sum of the amounts of upload rows
SumCells(rows) ==
    IF rows = <<>> THEN 0 ELSE Head(rows).Amount.v + SumCells(Tail(rows))

\* C4: an upload of N rows with the required columns and valid dates, K of
\* them with an invalid or missing amount, inserts N-K rows, skips K, and
\* raises the caller's sum by the sum of the accepted amounts.
C4_ImportCounts ==
    [][\A df \in WithValidDates :
         handle_file(1, TRUE, df) =>
             LET N == Len(df.rows)
                 accepted == ValidRows(df)
                 K == N - Len(accepted)
             IN  /\ reply'.kind = "file_processed"
                 /\ reply'.rows = N - K
                 /\ Len(transactions') = Len(transactions) + (N - K)
                 /\ OrZero(SelectSum(transactions', 1)) =
                        OrZero(SelectSum(transactions, 1)) + SumCells(accepted)]_vars

\* C5: in an upload with the Date and Amount columns a bad row never aborts
\* the batch: every valid row, before or after it, is inserted, and the
\* upload is answered with the counts.
C5_BadRowNeverAborts ==
    [][\A df \in WithColumns :
         handle_file(1, TRUE, df) =>
             LET accepted == ValidRows(df)
                 old == Len(transactions)
             IN  /\ reply'.kind = "file_processed"
                 /\ Len(transactions') = old + Len(accepted)
                 /\ \A i \in 1..Len(accepted) :
                       /\ transactions'[old + i].user_id = 1
                       /\ transactions'[old + i].amount = accepted[i].Amount.v
                       /\ transactions'[old + i].date =
                              strftime(accepted[i].Date.day, accepted[i].Date.tod)]_vars

\* C10: an upload without the Date column or without the Amount column is
\* answered with the file error and changes nothing in the store.
C10_MissingColumnRejectsBatch ==
    [][(/\ reply'.op = "file"
        /\ reply'.readable
        /\ ~(required_columns \subseteq reply'.columns)) =>
            /\ reply'.kind = "file_error"
            /\ UNCHANGED <<transactions, sqlite_sequence, user_preferences>>]_vars

\* a table with rows and no Date column was refused while the store held
\* rows
C10_Witness ==
    /\ reply.op = "file"
    /\ reply.kind = "file_error"
    /\ reply.readable
    /\ reply.columns = {"Amount"}
    /\ transactions # <<>>

----------------------------------------------------------------------------
(* The language preference, under SpecLang.                                *)

\* C8: a caller's language is the code of that caller's latest successful
\* /setlang, "en" before the first; a set overwrites, leaves at most one
\* row per caller, set twice is set once, and no caller's /setlang changes
\* another caller's language.
C8_LanguageIsLastSet ==
    /\ \A u \in Users : get_user_language(u) = "en"
    /\ [](\A u \in Users :
            /\ Cardinality({p \in user_preferences : p.user_id = u}) <= 1
            /\ \A c \in LANGUAGES :
                  set_user_language(set_user_language(user_preferences, u, c), u, c)
                  = set_user_language(user_preferences, u, c))
    /\ [][IF reply'.kind = "lang_set"
          THEN /\ SelectLanguage(user_preferences', reply'.user) = reply'.lang
               /\ \A v \in Users \ {reply'.user} :
                     SelectLanguage(user_preferences', v) = get_user_language(v)
          ELSE \A v \in Users :
                   SelectLanguage(user_preferences', v) = get_user_language(v)]_vars

\* caller 2 set "kg" and then "ru" while caller 1 keeps "kg"
C8_Witness ==
    /\ reply.kind = "lang_set"
    /\ reply.user = 2
    /\ reply.lang = "ru"
    /\ get_user_language(2) = "ru"
    /\ get_user_language(1) = "kg"

----------------------------------------------------------------------------
(* /report, under SpecDates.                                               *)

\* C9: a report whose start and end are the same day D, with no category,
\* covers exactly the caller's transactions of day D.
C9_SingleDayReport ==
    (/\ reply.op = "report"
     /\ reply.kind \in {"report", "no_transactions"}
     /\ reply.category = <<>>
     /\ StrptimeDay(reply.start) = StrptimeDay(reply.end)) =>
        LET D == StrptimeDay(reply.start)
            onDay == {i \in UserRows(reply.user) :
                         DayOfText(transactions[i].date) = D}
        IN  IF onDay = {} THEN reply.kind = "no_transactions"
            ELSE /\ reply.kind = "report"
                 /\ reply.count = Cardinality(onDay)
                 /\ reply.total = AlgebraicSum(onDay)

----------------------------------------------------------------------------
(* The frame of the ledger operations, under Spec.                         *)

\* the stored rows, as a set
RowSet(table) == {table[i] : i \in 1..Len(table)}

\* C11: no step changes a field of a stored transaction, and an add, an
\* upload or a clear by one caller inserts or removes only rows that carry
\* that caller's id: every other caller's rows and sum stay as they were.
C11_OnlyOwnRowsChange ==
    [][LET before == RowSet(transactions)
           after == RowSet(transactions')
       IN  /\ \A i \in 1..Len(transactions') :
                 transactions'[i].id <= sqlite_sequence =>
                     transactions'[i] \in before
           /\ \A r \in after \ before :
                 r.user_id = reply'.user /\ r.id > sqlite_sequence
           /\ \A q \in before \ after : q.user_id = reply'.user
           /\ \A v \in Users \ {reply'.user} :
                 /\ SelectByUser(transactions', v) = SelectByUser(transactions, v)
                 /\ SelectSum(transactions', v) = SelectSum(transactions, v)]_vars

\* a caller cleared two rows and the other caller's row is still stored
C11_Witness ==
    /\ reply.kind = "cleared"
    /\ sqlite_sequence = 3
    /\ \E v \in Users \ {reply.user} :
          /\ SelectByUser(transactions, v) = transactions
          /\ Len(transactions) = 1
          /\ transactions[1].id = 2

----------------------------------------------------------------------------
(* /history, under SpecHistory.                                            *)

\* the minute an entry shows
EntryStamp(e) == 1440 * e.day + e.minute

\* the minute a stored row lies in
RowStamp(r) == 1440 * DayOfText(r.date) + r.date[4] \div 60

\* C12: /history shows the caller's transactions latest first, at most 10
\* of them, and names total - 10 omitted transactions when the caller has
\* more than 10, and none otherwise.
C12_HistoryShowsLatestTen ==
    (reply.op = "history" /\ reply.kind = "history") =>
        LET mine == UserRows(reply.user)
            total == Cardinality(mine)
            n == Len(reply.entries)
        IN  /\ n = (IF total > 10 THEN 10 ELSE total)
            /\ \A i \in 1..(n - 1) :
                  EntryStamp(reply.entries[i]) >= EntryStamp(reply.entries[i + 1])
            /\ \A i \in 1..n : \E j \in mine :
                  /\ RowStamp(transactions[j]) = EntryStamp(reply.entries[i])
                  /\ transactions[j].amount = reply.entries[i].amount
            /\ Cardinality({j \in mine : RowStamp(transactions[j])
                                           > EntryStamp(reply.entries[n])}) < n
            /\ reply.omitted = (IF total > 10 THEN <<total - 10>> ELSE <<>>)

----------------------------------------------------------------------------
(* /report, under SpecReport.                                              *)

\* the positions of the rows a report's filter matches: the caller's rows
\* whose date lies between the start's first and the end's last second
\* and, when a category is given, whose category is that one
Matched(u, start, end, category) ==
    {i \in UserRows(u) :
        /\ ~TextLess(transactions[i].date, start \o <<Blank, StartOfDay>>)
        /\ ~TextLess(end \o <<Blank, EndOfDay>>, transactions[i].date)
        /\ (category = <<>> \/ <<transactions[i].category>> = category)}

\* C13: /report answers "no transactions" exactly when no transaction
\* matches its filter; otherwise it gives a report of count >= 1 whose net
\* is the algebraic sum of the matched amounts, income plus the negative
\* sum of the expenses.  A match of amounts that are all 0 is a report of
\* zeros.
C13_EmptyOnlyWhenNothingMatches ==
    (reply.op = "report" /\ reply.kind \in {"report", "no_transactions"}) =>
        LET matched == Matched(reply.user, reply.start, reply.end, reply.category)
        IN  /\ reply.kind = "no_transactions" <=> matched = {}
            /\ reply.kind = "report" =>
                  /\ reply.count = Cardinality(matched)
                  /\ reply.count >= 1
                  /\ reply.total = AlgebraicSum(matched)
                  /\ reply.income =
                         AlgebraicSum({i \in matched : transactions[i].amount > 0})
                  /\ reply.total = reply.income
                         + AlgebraicSum({i \in matched : transactions[i].amount < 0})
                  /\ reply.expenses = reply.income - reply.total

\* a report over two transactions of amount 0, while the caller also has
\* a transaction outside the range
C13_Witness ==
    /\ reply.op = "report"
    /\ reply.kind = "report"
    /\ reply.count = 2
    /\ reply.income = 0
    /\ reply.expenses = 0
    /\ reply.total = 0
    /\ Cardinality(UserRows(reply.user)) = 3

----------------------------------------------------------------------------
(* /add with a bad request, under Spec.                                    *)

\* the word is a number
WordIsNumber(w) == w.k = "num"

\* C14: /add with no arguments, or with an amount that is not a number, is
\* rejected as a whole: nothing is inserted, the store is left as it was,
\* and the caller gets the guidance message, not "added".
C14_BadAddIsRejected ==
    [][\A u \in Users, args \in LedgerAddArgs, now \in LedgerMoments :
         (/\ add_transaction(u, args, now) \/ main_add_transaction(u, args, now)
          /\ args = <<>> \/ ~WordIsNumber(args[1])) =>
             /\ reply'.op = "add"
             /\ reply'.kind = "error"
             /\ UNCHANGED <<transactions, sqlite_sequence, user_preferences>>]_vars

----------------------------------------------------------------------------
(* The atomicity of an upload, under SpecImport.                           *)

\* the step frees a connection that was left open
IsCollection == Locked /\ write_lock' = NoLock

\* C15: an upload changes the store all at once or not at all.  Either
\* every row it inserted is in the table together, with the reply of the
\* counts, or, when an exception left it after rows were inserted, none of
\* them is committed: the table, the id counter and the caller's sum are
\* what they were, the rows stay in the transaction of the connection left
\* open, and no later step, of a handler or of the runtime, brings them
\* into the table, where alone the other handlers read.
C15_ImportIsAllOrNothing ==
    [][/\ (reply'.op = "file" /\ ~IsCollection) =>
              LET n == reply'.rows_added
                  old == Len(transactions)
              IN  IF reply'.kind = "file_processed"
                  THEN /\ Len(transactions') = old + n
                       /\ SubSeq(transactions', 1, old) = transactions
                       /\ \A i \in 1..n :
                             /\ transactions'[old + i].user_id = reply'.user
                             /\ transactions'[old + i].id = sqlite_sequence + i
                       /\ sqlite_sequence' = sqlite_sequence + n
                       /\ write_lock' = write_lock
                  ELSE /\ UNCHANGED <<transactions, sqlite_sequence>>
                       /\ SelectSum(transactions', reply'.user)
                              = SelectSum(transactions, reply'.user)
                       /\ n > 0 => write_lock' = LeftOpen(n)
       /\ write_lock' # write_lock => UNCHANGED <<transactions, sqlite_sequence>>
       /\ \A i \in 1..Len(transactions') :
             transactions'[i].id <= sqlite_sequence'
       /\ \A u \in Users :
             (Locked /\ clear_transactions(u)) =>
                 (reply'.kind = "nothing_to_clear" <=> UserRows(u) = {})]_vars

\* caller 1's upload failed after it had inserted a row; the row is still
\* held by the connection left open, and caller 1's /clear finds nothing
\* to clear while the other caller's rows are stored
C15_Witness ==
    /\ write_lock = LeftOpen(1)
    /\ reply.op = "clear"
    /\ reply.user = 1
    /\ reply.kind = "nothing_to_clear"
    /\ UserRows(2) # {}
    /\ sqlite_sequence = Len(transactions)

----------------------------------------------------------------------------
(* Category and description, under SpecCategory.                           *)

\* the words that differ only in the case of their letters
CaseClasses == {{"Food", "FOOD", "food"}, {"Other", "other"}, {"Lunch", "lunch"}}

SameIgnoringCase(a, b) == a = b \/ \E K \in CaseClasses : a \in K /\ b \in K

\* the word has no capital letter
IsLowercase(s) == s \notin {"Food", "FOOD", "Other", "Lunch"}

\* the step stored exactly one row, the last of the table
StoredOne == Len(transactions') = Len(transactions) + 1

\* the row the step stored
Stored == transactions'[Len(transactions')]

\* the upload's row has a cell in the column, and it is not empty
Supplied(df, row, col) == col \in df.columns /\ row[col].k # "nan"

\* C16: every stored category is lowercase; a transaction stored without a
\* category (/add with only an amount, an upload row with no or an empty
\* Category) has category "other", one stored with a category has that
\* category in lowercase; hence /report with a category typed in any
\* letter case counts exactly the caller's transactions whose category
\* equals it but for the case of the letters.
C16_CategoryIsLowercase ==
    /\ [](\A i \in 1..Len(transactions) : IsLowercase(transactions[i].category))
    /\ []((/\ reply.op = "report"
           /\ reply.kind \in {"report", "no_transactions"}
           /\ reply.typed # <<>>) =>
              LET same == {i \in UserRows(reply.user) :
                              SameIgnoringCase(transactions[i].category,
                                               reply.typed[1])}
              IN  IF same = {} THEN reply.kind = "no_transactions"
                  ELSE reply.kind = "report" /\ reply.count = Cardinality(same))
    /\ [][/\ \A args \in CategoryAddArgs :
                (/\ \/ add_transaction(1, args, CategoryMoment)
                    \/ main_add_transaction(1, args, CategoryMoment)
                 /\ reply'.kind = "added") =>
                    /\ StoredOne
                    /\ IF Len(args) > 1
                       THEN SameIgnoringCase(Stored.category, args[2])
                       ELSE Stored.category = "other"
          /\ \A df \in CategoryTables :
                (/\ reply'.op = "file"
                 /\ reply'.kind = "file_processed"
                 /\ handle_file(1, TRUE, df)) =>
                    \A k \in 1..Len(df.rows) :
                        LET r == transactions'[Len(transactions) + k]
                        IN  IF Supplied(df, df.rows[k], "Category")
                            THEN SameIgnoringCase(r.category,
                                                  df.rows[k].Category.s)
                            ELSE r.category = "other"]_vars

\* /report for "FOOD" counted the caller's two transactions stored as
\* "food" and left out one stored as "other"
C16_Witness ==
    /\ reply.op = "report"
    /\ reply.kind = "report"
    /\ reply.typed = <<"FOOD">>
    /\ reply.count = 2
    /\ Len(transactions) = 3
    /\ \E i \in 1..3 : transactions[i].category = "other"

\* C17: a transaction stored without a description (/add with no
\* description word, /add with only an amount, an upload row with no or an
\* empty Description) has its stored category as its description.
C17_DescriptionDefaultsToCategory ==
    [][/\ \A args \in CategoryAddArgs :
             (/\ \/ add_transaction(1, args, CategoryMoment)
                 \/ main_add_transaction(1, args, CategoryMoment)
              /\ reply'.kind = "added"
              /\ Len(args) <= 2) =>
                 Stored.description = Stored.category
       /\ \A df \in CategoryTables :
             (/\ reply'.op = "file"
              /\ reply'.kind = "file_processed"
              /\ handle_file(1, TRUE, df)) =>
                 \A k \in 1..Len(df.rows) :
                     LET r == transactions'[Len(transactions) + k]
                     IN  ~Supplied(df, df.rows[k], "Description") =>
                             r.description = r.category]_vars

----------------------------------------------------------------------------
(* The stored language codes, under SpecLang.                              *)

\* C18: every stored language is one of en, ru, kg; /setlang with no code
\* or with a code that is none of them in any letter case is answered with
\* the list of the languages and leaves the stored preferences as they
\* were.
C18_StoredLanguageIsKnown ==
    /\ [](\A p \in user_preferences : p.language \in {"en", "ru", "kg"})
    /\ [][\A u \in Users, args \in {<<>>, <<"de">>} :
             (set_language(u, args) \/ main_set_language(u, args)) =>
                 /\ reply'.kind = "lang_invalid"
                 /\ user_preferences' = user_preferences]_vars

----------------------------------------------------------------------------
(* Messages and files, under SpecFiles.                                    *)

\* C19: an invocation delivers at most one message to the caller, whatever
\* path the handler took, /export included.
C19_AtMostOneReply == reply.sent <= 1

\* C20: no file a handler created for an export or an upload is on disk
\* when the handler has ended, whichever call raised.
C20_TemporaryFilesAreRemoved == tmp_files = {}

----------------------------------------------------------------------------
(* Failures inside a handler.                                              *)

\* C21, under SpecLang: whatever fails while a command is handled, the
\* handler itself catches it and answers with its own message; no
\* exception leaves the handler, neither to error_handler nor to nobody.
C21_FailuresAreCaughtAtHandler ==
    reply.kind \notin {"raised", "unexpected_error"}

\* C22, under Spec: when a handler has ended, no connection it opened is
\* still open.
C22_ConnectionsAreClosed == ~Locked

----------------------------------------------------------------------------
(* Concurrent handlers of one caller, under SpecInterleave.                *)

\* the rows of the table that carry the user's id
Mine(table, u) == {r \in RowSet(table) : r.user_id = u}

RECURSIVE SumOfRows(_)
\* the sum of the amounts of a set of rows
SumOfRows(R) ==
    IF R = {} THEN 0
    ELSE LET r == CHOOSE q \in R : TRUE
         IN  r.amount + SumOfRows(R \ {r})

\* the step is a handler that ran up to its reply
HandlerRan == Len(awaiting') = Len(awaiting) + 1

\* the message of the handler that ran
ItsMessage == awaiting'[Len(awaiting')]

\* C23: however the handlers of one user interleave, no insert is lost.
\* A stored row leaves the table only in the step of a /clear of its user
\* that answers "cleared", so the row of an add that answers "added" stays
\* until a clear that runs after it.  The balance an add (an upload)
\* reports is the sum of the user's rows in the table its own step left,
\* whatever is stored by the time the message arrives.  Every step
\* changes the user's sum by what it added: an add by its amount, an upload
\* by the amounts of its rows, a clear to 0, and nothing else changes it;
\* so when every handler has ended the sum is that of the amounts added
\* since the last clear.
C23_NoInsertIsLost ==
    [][LET u == ItsMessage.user
           before == Mine(transactions, u)
           after == Mine(transactions', u)
           new == after \ before
       IN  IF ~HandlerRan
           THEN transactions' = transactions
           ELSE /\ \A v \in Users \ {u} :
                      Mine(transactions', v) = Mine(transactions, v)
                /\ \A r \in new : r.id > sqlite_sequence
                /\ IF ItsMessage.kind = "added"
                   THEN /\ before \subseteq after
                        /\ Cardinality(new) = 1
                        /\ \A r \in new : r.amount = ItsMessage.amount
                        /\ ItsMessage.balance = SumOfRows(after)
                        /\ SumOfRows(after) =
                               SumOfRows(before) + ItsMessage.amount
                   ELSE IF ItsMessage.kind = "file_processed"
                   THEN /\ before \subseteq after
                        /\ Cardinality(new) = ItsMessage.rows_added
                        /\ ItsMessage.balance = SumOfRows(after)
                        /\ SumOfRows(after) =
                               SumOfRows(before) + SumOfRows(new)
                   ELSE IF ItsMessage.kind = "cleared"
                   THEN after = {} /\ ItsMessage.count = Cardinality(before)
                   ELSE after = before]_vars

\* the caller has the answer of a /clear while the /add that ran before
\* the clear still waits with the balance 2 it read, its row cleared since,
\* and an upload of two rows that ran after the clear waits with balance 4
C23_Witness ==
    /\ reply.op = "clear"
    /\ reply.kind = "cleared"
    /\ Len(awaiting) = 2
    /\ awaiting[1].kind = "added"
    /\ awaiting[1].balance = 2
    /\ awaiting[2].kind = "file_processed"
    /\ awaiting[2].rows_added = 2
    /\ awaiting[2].balance = 4
    /\ Len(transactions) = 2
    /\ transactions[1].id = 2

====
